---------------------------- MODULE Spec2Model ----------------------------
(***************************************************************************)
(* A model of src/server.js: the Express quiz backend.                     *)
(*                                                                         *)
(* Part I  models POST /api/quiz-feedback (credential check, validation,   *)
(*         prompt construction, the bounded retry loop).                   *)
(* Part II models the handlers that talk to Postgres through the pg pool:  *)
(*         register, login, import-json, the list/get handlers and the     *)
(*         update/delete handlers, at the granularity of their awaits.     *)
(*                                                                         *)
(* Every await of the source is a point where other requests may run, so   *)
(* every action below is the code between two awaits of one handler.       *)
(***************************************************************************)
EXTENDS Integers, Sequences, FiniteSets, TLC

VARIABLES
    \* ---- process-wide state (server.js:26-38) ----
    aiClient,       \* "null" | "client"                       (server.js:26-33)
    \* ---- the one feedback request of Part I ----
    fbPc,           \* "idle" | "calling" | "waiting" | "done"
    fbBody,         \* req.body: [questions, answers]
    fbPrompt,       \* the prompt string handed to generateContent
    attempt,        \* the loop variable of server.js:297
    fbCalls,        \* history: number of generateContent calls made
    fbOutcomes,     \* history: what the backend answered, call by call
    fbWaits,        \* history: the setTimeout delays awaited, in order
    fbStatus,       \* HTTP status sent (0: none yet)
    fbFeedback,     \* the feedback text of the 200 response
    \* ---- the database (Part II) ----
    users,          \* committed rows of users
    quiz_sets,      \* committed rows of quiz_sets
    questions,      \* committed rows of questions
    serial,         \* the next value of each table's id sequence
    uniqueEmail,    \* schema: does users.email carry a unique index?
    \* ---- the process (Part II) ----
    express5,       \* does the router answer a rejected handler promise?
    poolInUse,      \* clients checked out of the pg pool
    arrived,        \* number of requests received so far
    reqs            \* per request: its handler's state (see IdleReq)

fbVars == <<aiClient, fbPc, fbBody, fbPrompt, attempt, fbCalls, fbOutcomes,
            fbWaits, fbStatus, fbFeedback>>

(***************************************************************************)
(*                    Part I: POST /api/quiz-feedback                      *)
(***************************************************************************)

\* Variant: one attempt more than the source allows.
maxRetriesMutant == 4 + 1
\* const maxRetries = 4;
maxRetries == 4

\* The base of the linear backoff, 500 in `500 * (attempt + 1)`.
BackoffBaseMs == 500

\* The sentinel of server.js:260 (the source text is "Không trả lời").
NoAnswer == "Khong tra loi"

\* JSON null (and a missing array slot) as an element of answers[].
JsNull == "<null>"

\* A value of req.body.questions / req.body.answers: an array or anything else
\* (missing, a string, an object, ...), which Array.isArray rejects.
NotAnArray == [isArray |-> FALSE, elems |-> <<>>]
Arr(s) == [isArray |-> TRUE, elems |-> s]

\* An element of questions[]: JSON null, or an object with two fields.
NullQ == [isNull |-> TRUE, question |-> "", correctAnswer |-> ""]
Q(q, a) == [isNull |-> FALSE, question |-> q, correctAnswer |-> a]

FbQuestionValues ==
    { NotAnArray, Arr(<<>>), Arr(<<Q("q1", "a1")>>),
      Arr(<<Q("q1", "a1"), Q("q2", "a2")>>), Arr(<<Q("q1", "a1"), NullQ>>) }

FbAnswerValues ==
    { NotAnArray, Arr(<<>>), Arr(<<"a1">>), Arr(<<JsNull, "x">>) }

\* The error a rejected generateContent call carries: err.status and
\* err.error.status, 0 standing for undefined (both are falsy for ||).
StatusValues == {0, 500, 503}
BackendErrors == [status : StatusValues, errorStatus : StatusValues]

\* What one generateContent call can do: resolve with response.text (possibly
\* undefined, modelled as ""), or reject with an error.
BackendOutcomes ==
    { [ok |-> TRUE, text |-> t, err |-> [status |-> 0, errorStatus |-> 0]] :
        t \in {"", "<div>ok</div>"} }
    \cup { [ok |-> FALSE, text |-> "", err |-> e] : e \in BackendErrors }

\* const status = err?.status || err?.error?.status;
ErrStatus(err) == IF err.status # 0 THEN err.status ELSE err.errorStatus

\* Variant: every failure is taken for an overload.
IsOverloadMutant(err) == TRUE
\* status === 503
IsOverload(err) == ErrStatus(err) = 503

\* if (status === 503 && attempt < maxRetries - 1)
ShouldRetry(err, k) == IsOverload(err) /\ k < maxRetries - 1

\* Variant: the backoff counts from 0.
DelayMsMutant(k) == BackoffBaseMs * k
\* const delayMs = 500 * (attempt + 1);
DelayMs(k) == BackoffBaseMs * (k + 1)

\* idx < answers.length && answers[idx] != null ? answers[idx] : sentinel
\* (idx is 0-based in the source, i = idx + 1 here).
UserAnswer(answers, i) ==
    IF i <= Len(answers) /\ answers[i] # JsNull THEN answers[i] ELSE NoAnswer

\* One element of the .map() of server.js:258-263.
Item(q, answers, i) ==
    "Cau " \o ToString(i) \o ":\n- Cau hoi: " \o q.question
        \o "\n- Dap an dung: " \o q.correctAnswer
        \o "\n- Dap an user chon: " \o UserAnswer(answers, i)

RECURSIVE JoinItems(_, _, _)
\* .join("\n\n") of the items from index i on.
JoinItems(qs, answers, i) ==
    IF i > Len(qs) THEN ""
    ELSE Item(qs[i], answers, i)
            \o (IF i < Len(qs) THEN "\n\n" ELSE "")
            \o JoinItems(qs, answers, i + 1)

\* q.question on a null element throws a TypeError inside the outer try.
MapThrows(qs) == \E i \in 1..Len(qs) : qs[i].isNull

\* The template of server.js:266-292, its fixed text abbreviated.
Prompt(qs, answers) ==
    "<instructions>\n" \o JoinItems(qs, answers, 1) \o "\n<html format>"

\* Variant: the body is validated before the credential is looked at.
EntryCheckMutant(body) ==
    IF ~body.questions.isArray \/ ~body.answers.isArray THEN 400
    ELSE IF aiClient = "null" THEN 503
    ELSE 0
\* server.js:242-254: the status the entry checks answer with, 0 to go on.
EntryCheck(body) ==
    IF aiClient = "null" THEN 503
    ELSE IF ~body.questions.isArray \/ ~body.answers.isArray THEN 400
    ELSE 0

FbInitWith(clients) ==
    /\ aiClient \in clients
    /\ fbPc = "idle"
    /\ fbBody = [questions |-> NotAnArray, answers |-> NotAnArray]
    /\ fbPrompt = ""
    /\ attempt = 0
    /\ fbCalls = 0
    /\ fbOutcomes = <<>>
    /\ fbWaits = <<>>
    /\ fbStatus = 0
    /\ fbFeedback = ""

\* The handler up to its first await (server.js:241-299).
FeedbackReceive ==
    /\ fbPc = "idle"
    /\ \E qs \in FbQuestionValues, as \in FbAnswerValues :
        LET body == [questions |-> qs, answers |-> as] IN
        /\ fbBody' = body
        /\ IF EntryCheck(body) # 0
             THEN /\ fbStatus' = EntryCheck(body)
                  /\ fbPc' = "done"
                  /\ UNCHANGED <<fbPrompt, fbCalls>>
           ELSE IF MapThrows(qs.elems)
             THEN \* caught at server.js:319
                  /\ fbStatus' = 500
                  /\ fbPc' = "done"
                  /\ UNCHANGED <<fbPrompt, fbCalls>>
           ELSE /\ fbPrompt' = Prompt(qs.elems, as.elems)
                /\ fbCalls' = fbCalls + 1
                /\ fbPc' = "calling"
                /\ UNCHANGED fbStatus
    /\ UNCHANGED <<aiClient, attempt, fbOutcomes, fbWaits, fbFeedback>>

\* generateContent settles (server.js:299-316).
FeedbackCallSettles ==
    /\ fbPc = "calling"
    /\ \E o \in BackendOutcomes :
        /\ fbOutcomes' = Append(fbOutcomes, o)
        /\ IF o.ok
             THEN /\ fbFeedback' = o.text
                  /\ fbStatus' = 200
                  /\ fbPc' = "done"
                  /\ UNCHANGED fbWaits
           ELSE IF ShouldRetry(o.err, attempt)
             THEN /\ fbWaits' = Append(fbWaits, DelayMs(attempt))
                  /\ fbPc' = "waiting"
                  /\ UNCHANGED <<fbStatus, fbFeedback>>
           ELSE \* throw err, caught at server.js:319
                /\ fbStatus' = 500
                /\ fbPc' = "done"
                /\ UNCHANGED <<fbWaits, fbFeedback>>
    /\ UNCHANGED <<aiClient, fbBody, fbPrompt, attempt, fbCalls>>

\* The timer of server.js:311 fires: continue, attempt++, the next call.
FeedbackTimerFires ==
    /\ fbPc = "waiting"
    /\ attempt' = attempt + 1
    /\ IF attempt + 1 < maxRetries
         THEN /\ fbCalls' = fbCalls + 1
              /\ fbPc' = "calling"
              /\ UNCHANGED fbStatus
       ELSE \* throw lastError (server.js:318)
            /\ fbStatus' = 500
            /\ fbPc' = "done"
            /\ UNCHANGED fbCalls
    /\ UNCHANGED <<aiClient, fbBody, fbPrompt, fbOutcomes, fbWaits, fbFeedback>>

FbNext == FeedbackReceive \/ FeedbackCallSettles \/ FeedbackTimerFires

(***************************************************************************)
(*               Part II: the handlers backed by the pg pool               *)
(***************************************************************************)

dbVars == <<users, quiz_sets, questions, serial, uniqueEmail, express5,
            poolInUse, arrived, reqs>>
vars == <<fbVars, dbVars>>

\* Requests received in one behaviour.
NumReq == 2
\* The pool's size (server.js:35-38 sets no `max`).
PoolSize == 1
\* Longest questions[] array of an import request.
MaxQuestions == 2
\* Largest id a request names in its URL.
MaxId == 2

Req == 1..NumReq
IdValues == 1..MaxId

SeqsUpTo(S, n) == UNION { [1..k -> S] : k \in 0..n }

\* The body every catch block of Part II answers with.
GenericError == "Internal server error"
\* What the framework's own error handler sends (not the handler's body).
FrameworkError == "<express default error page>"

\* ---- request bodies -----------------------------------------------------

\* An element of questions[] of an import: JSON null, or an object. A field
\* that is missing, and any element that is no object, reads as "" (falsy).
NullEntry ==
    [isNull |-> TRUE, question |-> "", correctAnswer |-> "",
     wrongAnswers |-> NotAnArray]
Entry(q, a, w) ==
    [isNull |-> FALSE, question |-> q, correctAnswer |-> a, wrongAnswers |-> w]

Good1 == Entry("q1", "a1", Arr(<<"w1", "w2">>))
Good2 == Entry("q2", "a2", Arr(<<>>))
NoQuestion == Entry("", "a3", Arr(<<"w3">>))
NoCorrect == Entry("q4", "", Arr(<<"w4">>))
NoWrongArray == Entry("q5", "a5", NotAnArray)

ImportEntries == {Good1, Good2, NoQuestion, NoCorrect, NoWrongArray, NullEntry}

ImportPayloads ==
    {NotAnArray} \cup { Arr(s) : s \in SeqsUpTo(ImportEntries, MaxQuestions) }

SmallPayloads == { Arr(<<NoQuestion, Good1>>), Arr(<<NullEntry>>) }

NoArgs ==
    [email |-> "", password |-> "", userId |-> 0, title |-> "",
     questions |-> NotAnArray, id |-> 0, question |-> "",
     correctAnswer |-> "", wrongAnswers |-> NotAnArray]

CredentialArgs(emails, passwords) ==
    { [NoArgs EXCEPT !.email = e, !.password = p] :
        e \in emails, p \in passwords }

ImportArgs(userIds, titles, payloads) ==
    { [NoArgs EXCEPT !.userId = u, !.title = t, !.questions = q] :
        u \in userIds, t \in titles, q \in payloads }

UserArgs(userIds) == { [NoArgs EXCEPT !.userId = u] : u \in userIds }

IdArgs(ids) == { [NoArgs EXCEPT !.id = i] : i \in ids }

TitleArgs(ids, titles) ==
    { [NoArgs EXCEPT !.id = i, !.title = t] : i \in ids, t \in titles }

QuestionArgs(ids, entries) ==
    { [NoArgs EXCEPT !.id = i, !.question = e.question,
                     !.correctAnswer = e.correctAnswer,
                     !.wrongAnswers = e.wrongAnswers] :
        i \in ids, e \in entries }

\* ---- rows and SQL -------------------------------------------------------

RECURSIVE JoinStrings(_)
JoinStrings(s) ==
    IF s = <<>> THEN ""
    ELSE "\"" \o Head(s) \o "\""
            \o (IF Len(s) > 1 THEN "," ELSE "") \o JoinStrings(Tail(s))

\* JSON.stringify of an array of strings.
JSONStringify(s) == "[" \o JoinStrings(s) \o "]"

RECURSIVE SeqById(_)
\* ORDER BY id: the rows of a set, by ascending id.
SeqById(S) ==
    IF S = {} THEN <<>>
    ELSE LET m == CHOOSE x \in S : \A y \in S : x.id <= y.id
         IN  <<m>> \o SeqById(S \ {m})

RECURSIVE SeqByIdDesc(_)
\* ORDER BY created_at DESC: created_at is the time of the insert, which the
\* serial id orders, so newest first is highest id first.
SeqByIdDesc(S) ==
    IF S = {} THEN <<>>
    ELSE LET m == CHOOSE x \in S : \A y \in S : x.id >= y.id
         IN  <<m>> \o SeqByIdDesc(S \ {m})

\* RETURNING id, email, created_at / delete user.password
PublicUser(u) == [id |-> u.id, email |-> u.email]
\* SELECT id, title, created_at
PublicQuizSet(q) == [id |-> q.id, title |-> q.title]
PublicQuizSets(s) == [i \in 1..Len(s) |-> PublicQuizSet(s[i])]
\* SELECT id, question, correct_answer AS "correctAnswer", ...
PublicQuestion(q) ==
    [id |-> q.id, question |-> q.question, correctAnswer |-> q.correct_answer,
     wrongAnswers |-> q.wrong_answers]
PublicQuestions(s) == [i \in 1..Len(s) |-> PublicQuestion(s[i])]

\* title || "Imported Quiz"
TitleOrDefault(t) == IF t = "" THEN "Imported Quiz" ELSE t

\* ON DELETE CASCADE of questions.quiz_set_id (the schema is not in the
\* source; the data model assumes the cascade).
CascadeDelete(id) == { q \in questions : q.quiz_set_id # id }

\* Variant: a statement that hits no row is answered 404.
UpdateDeleteStatusMutant(rowCount) == IF rowCount = 0 THEN 404 ELSE 204
\* res.status(204).send(): the handlers never look at the row count.
UpdateDeleteStatus(rowCount) == 204

\* if (!question || !correctAnswer || !Array.isArray(wrongAnswers))
Malformed(e) ==
    e.question = "" \/ e.correctAnswer = "" \/ ~e.wrongAnswers.isArray

RECURSIVE NextEntry(_, _)
\* The for loop of server.js:125-127 from element i on, up to the first
\* element that is not skipped by `continue`: a null element (destructuring
\* it throws) or one that is inserted. Len + 1 when the loop ends.
NextEntry(elems, i) ==
    IF i > Len(elems) THEN i
    ELSE IF elems[i].isNull \/ ~Malformed(elems[i]) THEN i
    ELSE NextEntry(elems, i + 1)

\* ---- a request's handler state ------------------------------------------

NoBody == [error |-> "", data |-> <<>>]
NoTx == [sets |-> {}, qs |-> {}]

IdleReq ==
    [kind |-> "none", pc |-> "idle", stmt |-> "", args |-> NoArgs,
     status |-> 0, body |-> NoBody, responses |-> 0,
     acquired |-> 0, released |-> 0,
     connFailed |-> FALSE, stmtFailed |-> FALSE, rollbackFailed |-> FALSE,
     uniqueViolation |-> FALSE, typeError |-> FALSE, tx |-> NoTx, idx |-> 0, quizSetId |-> 0]

Start(kind, a) == [IdleReq EXCEPT !.kind = kind, !.args = a]

\* res.status(st).json(...) / .send(), after which the handler returns.
Respond(rec, st, err, data) ==
    [rec EXCEPT !.pc = "done", !.status = st,
                !.body = [error |-> err, data |-> data],
                !.responses = @ + 1]

\* query(text, params) is called: its first await is pool.connect().
CallQuery(rec, stmt) == [rec EXCEPT !.pc = "connect", !.stmt = stmt]

Acquired(rec) == [rec EXCEPT !.acquired = @ + 1]
\* client.release()
Released(rec) == [rec EXCEPT !.released = @ + 1]

\* The handler's promise rejects: nothing in server.js answers the request.
\* Express 5 passes the rejection to its error handler, which answers 500;
\* Express 4 leaves it unhandled and the request is never answered.
Escape(rec) ==
    IF express5 THEN Respond(rec, 500, FrameworkError, <<>>)
    ELSE [rec EXCEPT !.pc = "dropped"]

Arriving(r) == reqs[r].pc = "idle" /\ r = arrived + 1

tables == <<users, quiz_sets, questions, serial>>
process == <<uniqueEmail, express5>>

SeedUsers == { [id |-> 1, email |-> "a@x", password |-> "pw"] }
SeedQuizSets == { [id |-> 1, user_id |-> 1, title |-> "T"] }
SeedQuestions ==
    { [id |-> 1, quiz_set_id |-> 1, question |-> "q1", correct_answer |-> "a1",
       wrong_answers |-> JSONStringify(<<"w1", "w2">>)],
      [id |-> 2, quiz_set_id |-> 1, question |-> "q2", correct_answer |-> "a2",
       wrong_answers |-> JSONStringify(<<>>)] }

\* The database when the server starts: empty, or holding what one register
\* and one import of <<Good1, Good2>> left.
DbInitWith(seeds, uniques, fives) ==
    /\ \E seeded \in seeds :
        /\ users = IF seeded THEN SeedUsers ELSE {}
        /\ quiz_sets = IF seeded THEN SeedQuizSets ELSE {}
        /\ questions = IF seeded THEN SeedQuestions ELSE {}
        /\ serial = IF seeded
                      THEN [users |-> 2, quiz_sets |-> 2, questions |-> 3]
                      ELSE [users |-> 1, quiz_sets |-> 1, questions |-> 1]
    /\ uniqueEmail \in uniques
    /\ express5 \in fives
    /\ poolInUse = 0
    /\ arrived = 0
    /\ reqs = [r \in Req |-> IdleReq]

\* ---- query(): server.js:40-47 --------------------------------------------

\* await pool.connect() inside query(): a client is handed out when one is
\* free, or the promise rejects, which the handler's catch answers with 500.
QueryConnect(r) ==
    LET rec == reqs[r] IN
    /\ rec.pc = "connect"
    /\ \/ /\ poolInUse < PoolSize
          /\ poolInUse' = poolInUse + 1
          /\ reqs' = [reqs EXCEPT ![r] = [Acquired(rec) EXCEPT !.pc = "exec"]]
       \/ /\ UNCHANGED poolInUse
          /\ reqs' = [reqs EXCEPT ![r] =
                Respond([rec EXCEPT !.connFailed = TRUE], 500, GenericError, <<>>)]
    /\ UNCHANGED <<fbVars, tables, process, arrived>>

\* await client.query() rejects: `finally` releases the client, then the
\* handler's catch answers 500.
QueryFails(r) ==
    LET rec == Released([reqs[r] EXCEPT !.stmtFailed = TRUE]) IN
    /\ reqs[r].pc = "exec"
    /\ poolInUse' = poolInUse - 1
    /\ reqs' = [reqs EXCEPT ![r] = Respond(rec, 500, GenericError, <<>>)]
    /\ UNCHANGED <<fbVars, tables, process, arrived>>

\* ---- POST /api/register: server.js:55-76 ---------------------------------

ArriveRegister(r, A) ==
    /\ Arriving(r)
    /\ \E a \in A :
        reqs' = [reqs EXCEPT ![r] =
            IF a.email = "" \/ a.password = ""
              THEN Respond(Start("register", a), 400,
                           "Email and password are required", <<>>)
              ELSE CallQuery(Start("register", a), "selectUser")]
    /\ arrived' = arrived + 1
    /\ UNCHANGED <<fbVars, tables, process, poolInUse>>

\* SELECT id FROM users WHERE email = $1 resolves.
RegisterSelect(r) ==
    LET rec == Released(reqs[r])
        existing == { u \in users : u.email = rec.args.email }
    IN
    /\ reqs[r].pc = "exec" /\ reqs[r].stmt = "selectUser"
    /\ poolInUse' = poolInUse - 1
    /\ reqs' = [reqs EXCEPT ![r] =
            IF existing # {}
              THEN Respond(rec, 409, "Email already registered", <<>>)
              ELSE CallQuery(rec, "insertUser")]
    /\ UNCHANGED <<fbVars, tables, process, arrived>>

\* INSERT INTO users ... RETURNING resolves, or is refused by the unique
\* index when the schema has one.
RegisterInsert(r) ==
    LET rec == Released(reqs[r])
        row == [id |-> serial.users, email |-> rec.args.email,
                password |-> rec.args.password]
        refused == uniqueEmail /\ \E u \in users : u.email = rec.args.email
    IN
    /\ reqs[r].pc = "exec" /\ reqs[r].stmt = "insertUser"
    /\ poolInUse' = poolInUse - 1
    /\ serial' = [serial EXCEPT !.users = @ + 1]
    /\ users' = IF refused THEN users ELSE users \cup {row}
    /\ reqs' = [reqs EXCEPT ![r] =
            IF refused
              THEN Respond([rec EXCEPT !.stmtFailed = TRUE, !.uniqueViolation = TRUE],
                           500, GenericError, <<>>)
              ELSE Respond(rec, 201, "", <<PublicUser(row)>>)]
    /\ UNCHANGED <<fbVars, quiz_sets, questions, process, arrived>>

\* ---- POST /api/login: server.js:78-99 ------------------------------------

ArriveLogin(r, A) ==
    /\ Arriving(r)
    /\ \E a \in A :
        reqs' = [reqs EXCEPT ![r] =
            IF a.email = "" \/ a.password = ""
              THEN Respond(Start("login", a), 400,
                           "Email and password are required", <<>>)
              ELSE CallQuery(Start("login", a), "loginSelect")]
    /\ arrived' = arrived + 1
    /\ UNCHANGED <<fbVars, tables, process, poolInUse>>

\* SELECT ... FROM users WHERE email = $1 resolves; rows[0] is whichever
\* matching row the database returns first.
LoginSelect(r) ==
    LET rec == Released(reqs[r])
        rows == { u \in users : u.email = rec.args.email }
    IN
    /\ reqs[r].pc = "exec" /\ reqs[r].stmt = "loginSelect"
    /\ poolInUse' = poolInUse - 1
    /\ \/ /\ rows = {}
          /\ reqs' = [reqs EXCEPT ![r] =
                Respond(rec, 401, "Invalid email or password", <<>>)]
       \/ \E u \in rows :
            reqs' = [reqs EXCEPT ![r] =
                IF u.password # rec.args.password
                  THEN Respond(rec, 401, "Invalid email or password", <<>>)
                  ELSE Respond(rec, 200, "", <<PublicUser(u)>>)]
    /\ UNCHANGED <<fbVars, tables, process, arrived>>

\* ---- POST /api/quiz-sets/import-json: server.js:104-145 ------------------

ArriveImport(r, A) ==
    /\ Arriving(r)
    /\ \E a \in A :
        reqs' = [reqs EXCEPT ![r] =
            IF a.userId = 0 \/ ~a.questions.isArray \/ Len(a.questions.elems) = 0
              THEN Respond(Start("import", a), 400,
                           "userId and non-empty questions[] are required", <<>>)
              ELSE \* const client = await pool.connect();
                   [Start("import", a) EXCEPT !.pc = "iconnect"]]
    /\ arrived' = arrived + 1
    /\ UNCHANGED <<fbVars, tables, process, poolInUse>>

\* await pool.connect() at server.js:112, outside the try: a rejection
\* leaves the handler.
ImportConnect(r) ==
    LET rec == reqs[r] IN
    /\ rec.pc = "iconnect"
    /\ \/ /\ poolInUse < PoolSize
          /\ poolInUse' = poolInUse + 1
          /\ reqs' = [reqs EXCEPT ![r] = [Acquired(rec) EXCEPT !.pc = "begin"]]
       \/ /\ UNCHANGED poolInUse
          /\ reqs' = [reqs EXCEPT ![r] = Escape([rec EXCEPT !.connFailed = TRUE])]
    /\ UNCHANGED <<fbVars, tables, process, arrived>>

\* await client.query("BEGIN") resolves.
ImportBegin(r) ==
    /\ reqs[r].pc = "begin"
    /\ reqs' = [reqs EXCEPT ![r].pc = "insertSet"]
    /\ UNCHANGED <<fbVars, tables, process, poolInUse, arrived>>

\* The for loop from element i up to its next await: the insert of element
\* idx, the COMMIT after the last element, or the ROLLBACK of the catch block
\* when destructuring a null element throws.
AdvanceLoop(rec, i) ==
    LET elems == rec.args.questions.elems
        j == NextEntry(elems, i)
    IN  IF j > Len(elems) THEN [rec EXCEPT !.pc = "commit", !.idx = j]
        ELSE IF elems[j].isNull
               THEN [rec EXCEPT !.pc = "rollback", !.idx = j, !.typeError = TRUE]
        ELSE [rec EXCEPT !.pc = "insertQ", !.idx = j]

\* INSERT INTO quiz_sets ... RETURNING resolves (inside the transaction).
ImportInsertSet(r) ==
    LET rec == reqs[r]
        row == [id |-> serial.quiz_sets, user_id |-> rec.args.userId,
                title |-> TitleOrDefault(rec.args.title)]
    IN
    /\ rec.pc = "insertSet"
    /\ serial' = [serial EXCEPT !.quiz_sets = @ + 1]
    /\ reqs' = [reqs EXCEPT ![r] =
            AdvanceLoop([rec EXCEPT !.tx.sets = {row}, !.quizSetId = row.id], 1)]
    /\ UNCHANGED <<fbVars, users, quiz_sets, questions, process, poolInUse, arrived>>

\* INSERT INTO questions ... resolves (inside the transaction).
ImportInsertQuestion(r) ==
    LET rec == reqs[r]
        e == rec.args.questions.elems[rec.idx]
        row == [id |-> serial.questions, quiz_set_id |-> rec.quizSetId,
                question |-> e.question, correct_answer |-> e.correctAnswer,
                wrong_answers |-> JSONStringify(e.wrongAnswers.elems)]
    IN
    /\ rec.pc = "insertQ"
    /\ serial' = [serial EXCEPT !.questions = @ + 1]
    /\ reqs' = [reqs EXCEPT ![r] =
            AdvanceLoop([rec EXCEPT !.tx.qs = @ \cup {row}], rec.idx + 1)]
    /\ UNCHANGED <<fbVars, users, quiz_sets, questions, process, poolInUse, arrived>>

\* COMMIT resolves: the rows become visible; 201; `finally` releases.
ImportCommit(r) ==
    LET rec == reqs[r] IN
    /\ rec.pc = "commit"
    /\ quiz_sets' = quiz_sets \cup rec.tx.sets
    /\ questions' = questions \cup rec.tx.qs
    /\ poolInUse' = poolInUse - 1
    /\ reqs' = [reqs EXCEPT ![r] =
            Respond(Released([rec EXCEPT !.tx = NoTx]), 201, "",
                    PublicQuizSets(SeqById(rec.tx.sets)))]
    /\ UNCHANGED <<fbVars, users, serial, process, arrived>>

\* BEGIN, an INSERT or COMMIT rejects: the catch block issues ROLLBACK.
ImportStatementFails(r) ==
    /\ reqs[r].pc \in {"begin", "insertSet", "insertQ", "commit"}
    /\ reqs' = [reqs EXCEPT ![r] = [@ EXCEPT !.pc = "rollback", !.stmtFailed = TRUE]]
    /\ UNCHANGED <<fbVars, tables, process, poolInUse, arrived>>

\* await client.query("ROLLBACK") settles. Resolved: 500, then `finally`
\* releases. Rejected: the catch block is left by the rejection, `finally`
\* releases, and the rejection leaves the handler; the rows of the
\* transaction stay uncommitted.
ImportRollbackSettles(r, releasesOnReject) ==
    LET rec == reqs[r] IN
    /\ rec.pc = "rollback"
    /\ \/ /\ poolInUse' = poolInUse - 1
          /\ reqs' = [reqs EXCEPT ![r] =
                Respond(Released([rec EXCEPT !.tx = NoTx]), 500, GenericError, <<>>)]
       \/ /\ poolInUse' = IF releasesOnReject THEN poolInUse - 1 ELSE poolInUse
          /\ reqs' = [reqs EXCEPT ![r] =
                Escape(IF releasesOnReject
                         THEN Released([rec EXCEPT !.rollbackFailed = TRUE])
                         ELSE [rec EXCEPT !.rollbackFailed = TRUE])]
    /\ UNCHANGED <<fbVars, tables, process, arrived>>

\* Variant: release() after the catch block instead of in `finally`.
ImportRollbackMutant(r) == ImportRollbackSettles(r, FALSE)
ImportRollback(r) == ImportRollbackSettles(r, TRUE)

\* ---- GET /api/quiz-sets: server.js:148-162 -------------------------------

ArriveListQuizSets(r, A) ==
    /\ Arriving(r)
    /\ \E a \in A :
        reqs' = [reqs EXCEPT ![r] =
            IF a.userId = 0
              THEN Respond(Start("listQuizSets", a), 400, "userId is required", <<>>)
              ELSE CallQuery(Start("listQuizSets", a), "listQuizSets")]
    /\ arrived' = arrived + 1
    /\ UNCHANGED <<fbVars, tables, process, poolInUse>>

ListQuizSets(r) ==
    LET rec == Released(reqs[r])
        rows == { q \in quiz_sets : q.user_id = rec.args.userId }
    IN
    /\ reqs[r].pc = "exec" /\ reqs[r].stmt = "listQuizSets"
    /\ poolInUse' = poolInUse - 1
    /\ reqs' = [reqs EXCEPT ![r] =
            Respond(rec, 200, "", PublicQuizSets(SeqByIdDesc(rows)))]
    /\ UNCHANGED <<fbVars, tables, process, arrived>>

\* ---- GET /api/quiz-sets/:id/questions: server.js:165-177 -----------------

ArriveGetQuestions(r, A) ==
    /\ Arriving(r)
    /\ \E a \in A :
        reqs' = [reqs EXCEPT ![r] =
            CallQuery(Start("getQuestions", a), "getQuestions")]
    /\ arrived' = arrived + 1
    /\ UNCHANGED <<fbVars, tables, process, poolInUse>>

GetQuestions(r) ==
    LET rec == Released(reqs[r])
        rows == { q \in questions : q.quiz_set_id = rec.args.id }
    IN
    /\ reqs[r].pc = "exec" /\ reqs[r].stmt = "getQuestions"
    /\ poolInUse' = poolInUse - 1
    /\ reqs' = [reqs EXCEPT ![r] =
            Respond(rec, 200, "", PublicQuestions(SeqById(rows)))]
    /\ UNCHANGED <<fbVars, tables, process, arrived>>

\* ---- PUT /api/quiz-sets/:id: server.js:180-193 ---------------------------

ArriveUpdateQuizSet(r, A) ==
    /\ Arriving(r)
    /\ \E a \in A :
        reqs' = [reqs EXCEPT ![r] =
            IF a.title = ""
              THEN Respond(Start("updateQuizSet", a), 400, "Title is required", <<>>)
              ELSE CallQuery(Start("updateQuizSet", a), "updateQuizSet")]
    /\ arrived' = arrived + 1
    /\ UNCHANGED <<fbVars, tables, process, poolInUse>>

\* UPDATE quiz_sets SET title = $1 WHERE id = $2 resolves.
UpdateQuizSet(r) ==
    LET rec == Released(reqs[r])
        hit == { q \in quiz_sets : q.id = rec.args.id }
    IN
    /\ reqs[r].pc = "exec" /\ reqs[r].stmt = "updateQuizSet"
    /\ poolInUse' = poolInUse - 1
    /\ quiz_sets' = (quiz_sets \ hit)
            \cup { [q EXCEPT !.title = rec.args.title] : q \in hit }
    /\ reqs' = [reqs EXCEPT ![r] =
            Respond(rec, UpdateDeleteStatus(Cardinality(hit)), "", <<>>)]
    /\ UNCHANGED <<fbVars, users, questions, serial, process, arrived>>

\* ---- DELETE /api/quiz-sets/:id: server.js:196-205 ------------------------

ArriveDeleteQuizSet(r, A) ==
    /\ Arriving(r)
    /\ \E a \in A :
        reqs' = [reqs EXCEPT ![r] =
            CallQuery(Start("deleteQuizSet", a), "deleteQuizSet")]
    /\ arrived' = arrived + 1
    /\ UNCHANGED <<fbVars, tables, process, poolInUse>>

\* DELETE FROM quiz_sets WHERE id = $1 resolves.
DeleteQuizSet(r) ==
    LET rec == Released(reqs[r])
        hit == { q \in quiz_sets : q.id = rec.args.id }
    IN
    /\ reqs[r].pc = "exec" /\ reqs[r].stmt = "deleteQuizSet"
    /\ poolInUse' = poolInUse - 1
    /\ quiz_sets' = quiz_sets \ hit
    /\ questions' = CascadeDelete(rec.args.id)
    /\ reqs' = [reqs EXCEPT ![r] =
            Respond(rec, UpdateDeleteStatus(Cardinality(hit)), "", <<>>)]
    /\ UNCHANGED <<fbVars, users, serial, process, arrived>>

\* ---- PUT /api/questions/:id: server.js:208-226 ---------------------------

ArriveUpdateQuestion(r, A) ==
    /\ Arriving(r)
    /\ \E a \in A :
        reqs' = [reqs EXCEPT ![r] =
            IF a.question = "" \/ a.correctAnswer = "" \/ ~a.wrongAnswers.isArray
              THEN Respond(Start("updateQuestion", a), 400,
                           "question, correctAnswer, wrongAnswers[] required", <<>>)
              ELSE CallQuery(Start("updateQuestion", a), "updateQuestion")]
    /\ arrived' = arrived + 1
    /\ UNCHANGED <<fbVars, tables, process, poolInUse>>

\* UPDATE questions SET ... WHERE id = $4 resolves.
UpdateQuestion(r) ==
    LET rec == Released(reqs[r])
        hit == { q \in questions : q.id = rec.args.id }
    IN
    /\ reqs[r].pc = "exec" /\ reqs[r].stmt = "updateQuestion"
    /\ poolInUse' = poolInUse - 1
    /\ questions' = (questions \ hit)
            \cup { [q EXCEPT !.question = rec.args.question,
                             !.correct_answer = rec.args.correctAnswer,
                             !.wrong_answers =
                                 JSONStringify(rec.args.wrongAnswers.elems)] :
                   q \in hit }
    /\ reqs' = [reqs EXCEPT ![r] =
            Respond(rec, UpdateDeleteStatus(Cardinality(hit)), "", <<>>)]
    /\ UNCHANGED <<fbVars, users, quiz_sets, serial, process, arrived>>

\* ---- DELETE /api/questions/:id: server.js:229-238 ------------------------

ArriveDeleteQuestion(r, A) ==
    /\ Arriving(r)
    /\ \E a \in A :
        reqs' = [reqs EXCEPT ![r] =
            CallQuery(Start("deleteQuestion", a), "deleteQuestion")]
    /\ arrived' = arrived + 1
    /\ UNCHANGED <<fbVars, tables, process, poolInUse>>

\* DELETE FROM questions WHERE id = $1 resolves.
DeleteQuestion(r) ==
    LET rec == Released(reqs[r])
        hit == { q \in questions : q.id = rec.args.id }
    IN
    /\ reqs[r].pc = "exec" /\ reqs[r].stmt = "deleteQuestion"
    /\ poolInUse' = poolInUse - 1
    /\ questions' = questions \ hit
    /\ reqs' = [reqs EXCEPT ![r] =
            Respond(rec, UpdateDeleteStatus(Cardinality(hit)), "", <<>>)]
    /\ UNCHANGED <<fbVars, users, quiz_sets, serial, process, arrived>>

(***************************************************************************)
(*                            Specifications                               *)
(***************************************************************************)

\* The feedback handler shares no state with the handlers of Part II, so it
\* is checked on its own, over every request body and backend behaviour.
InitFeedback ==
    FbInitWith({"null", "client"}) /\ DbInitWith({FALSE}, {TRUE}, {TRUE})

SpecFeedback == InitFeedback /\ [][FbNext /\ UNCHANGED dbVars]_vars

InitDb == FbInitWith({"client"}) /\ DbInitWith(BOOLEAN, BOOLEAN, BOOLEAN)

\* register and login
NextAuth ==
    \E r \in Req :
        \/ ArriveRegister(r, CredentialArgs({"", "a@x", "b@x"}, {"", "pw"}))
        \/ ArriveLogin(r, CredentialArgs({"", "a@x", "b@x"}, {"pw", "bad"}))
        \/ QueryConnect(r)
        \/ QueryFails(r)
        \/ RegisterSelect(r)
        \/ RegisterInsert(r)
        \/ LoginSelect(r)

SpecAuth == InitDb /\ [][NextAuth]_vars

\* import, over every questions[] array up to MaxQuestions, and the reads
NextImport ==
    \E r \in Req :
        \/ ArriveImport(r, ImportArgs({0, 1}, {""}, ImportPayloads))
        \/ ArriveGetQuestions(r, IdArgs(IdValues))
        \/ QueryConnect(r)
        \/ QueryFails(r)
        \/ GetQuestions(r)
        \/ ImportConnect(r)
        \/ ImportBegin(r)
        \/ ImportInsertSet(r)
        \/ ImportInsertQuestion(r)
        \/ ImportCommit(r)
        \/ ImportStatementFails(r)
        \/ ImportRollback(r)

InitImport == FbInitWith({"client"}) /\ DbInitWith({FALSE}, {TRUE}, BOOLEAN)

SpecImport == InitImport /\ [][NextImport]_vars

\* update and delete of quiz sets and questions
NextCrud ==
    \E r \in Req :
        \/ ArriveUpdateQuizSet(r, TitleArgs(IdValues, {"", "New"}))
        \/ ArriveDeleteQuizSet(r, IdArgs(IdValues))
        \/ ArriveUpdateQuestion(r, QuestionArgs(IdValues, {Good2, NoWrongArray}))
        \/ ArriveDeleteQuestion(r, IdArgs(IdValues))
        \/ QueryConnect(r)
        \/ QueryFails(r)
        \/ UpdateQuizSet(r)
        \/ DeleteQuizSet(r)
        \/ UpdateQuestion(r)
        \/ DeleteQuestion(r)

InitCrud == FbInitWith({"client"}) /\ DbInitWith(BOOLEAN, {TRUE}, {TRUE})

SpecCrud == InitCrud /\ [][NextCrud]_vars

\* every handler of Part II, each over a few requests
Next ==
    \E r \in Req :
        \/ ArriveRegister(r, CredentialArgs({"b@x"}, {"", "pw"}))
        \/ ArriveLogin(r, CredentialArgs({"a@x"}, {"", "pw"}))
        \/ ArriveImport(r, ImportArgs({0, 1}, {"T2"}, SmallPayloads))
        \/ ArriveListQuizSets(r, UserArgs({0, 1}))
        \/ ArriveGetQuestions(r, IdArgs({1}))
        \/ ArriveUpdateQuizSet(r, TitleArgs({1}, {"", "New"}))
        \/ ArriveDeleteQuizSet(r, IdArgs({1}))
        \/ ArriveUpdateQuestion(r, QuestionArgs({1}, {Good2, NoWrongArray}))
        \/ ArriveDeleteQuestion(r, IdArgs({1}))
        \/ QueryConnect(r)
        \/ QueryFails(r)
        \/ RegisterSelect(r)
        \/ RegisterInsert(r)
        \/ LoginSelect(r)
        \/ ListQuizSets(r)
        \/ GetQuestions(r)
        \/ UpdateQuizSet(r)
        \/ DeleteQuizSet(r)
        \/ UpdateQuestion(r)
        \/ DeleteQuestion(r)
        \/ ImportConnect(r)
        \/ ImportBegin(r)
        \/ ImportInsertSet(r)
        \/ ImportInsertQuestion(r)
        \/ ImportCommit(r)
        \/ ImportStatementFails(r)
        \/ ImportRollback(r)

\* started on the database one register and one import left
Init == FbInitWith({"client"}) /\ DbInitWith({TRUE}, {TRUE}, BOOLEAN)

Spec == Init /\ [][Next]_vars
(***************************************************************************)
(*                     Properties of Part I (C1 - C4)                      *)
(***************************************************************************)

\* The backend answered a call with the overload signal: a rejection whose
\* status, read as the source reads it, is 503.
AnsweredOverload(o) ==
    /\ ~o.ok
    /\ \/ o.err.status = 503
       \/ o.err.status = 0 /\ o.err.errorStatus = 503

AllOverloaded ==
    /\ Len(fbOutcomes) >= 1
    /\ \A i \in 1..Len(fbOutcomes) : AnsweredOverload(fbOutcomes[i])

\* C1: whatever the backend does, one feedback request makes at most 4
\* backend calls; if every call it made was answered with the overload
\* signal, the request is not answered before the 4th call, and it ends with
\* exactly 4 calls and the 500 response.
C1_BoundedRetry ==
    /\ fbCalls <= 4
    /\ Len(fbOutcomes) <= fbCalls
    /\ (AllOverloaded /\ fbStatus # 0) => (fbCalls = 4 /\ Len(fbOutcomes) = 4)
    /\ (AllOverloaded /\ fbPc = "done") => (fbCalls = 4 /\ fbStatus = 500)

C1_Witness ==
    /\ fbPc = "done" /\ AllOverloaded /\ fbCalls = 4 /\ fbStatus = 500

\* C2: a failure that is not the overload signal, at any attempt and after
\* any earlier outcomes, is the last thing the loop does: it is the last
\* call, no wait follows it, and the request is answered 500 in the same step.
C2_NonOverloadAborts ==
    \A i \in 1..Len(fbOutcomes) :
        (~fbOutcomes[i].ok /\ ~AnsweredOverload(fbOutcomes[i])) =>
            /\ i = Len(fbOutcomes)
            /\ fbCalls = i
            /\ Len(fbWaits) = i - 1
            /\ fbPc = "done"
            /\ fbStatus = 500

C2_Witness ==
    /\ Len(fbOutcomes) = 3
    /\ AnsweredOverload(fbOutcomes[1]) /\ AnsweredOverload(fbOutcomes[2])
    /\ ~fbOutcomes[3].ok /\ ~AnsweredOverload(fbOutcomes[3])
    /\ fbOutcomes[3].err.status = 500
    /\ fbStatus = 500 /\ fbCalls = 3

\* The attempts (1-based) that were answered with the overload signal and
\* were not the 4th: the ones a wait follows.
RetriedAttempts ==
    { i \in 1..Len(fbOutcomes) : i < 4 /\ AnsweredOverload(fbOutcomes[i]) }

\* C3: the i-th wait of a request is 500*i ms (the wait after 0-indexed
\* attempt k is 500*(k+1)); there is one wait per overloaded attempt among
\* the first three and none after the 4th attempt or after a success; three
\* overloads followed by a success end in 200 after the waits 500, 1000, 1500.
C3_LinearBackoff ==
    /\ \A i \in 1..Len(fbWaits) : fbWaits[i] = 500 * i
    /\ Len(fbWaits) = Cardinality(RetriedAttempts)
    /\ fbPc = "waiting" => Len(fbWaits) = Len(fbOutcomes)
    /\ ( /\ fbPc = "done"
         /\ Len(fbOutcomes) = 4
         /\ \A i \in 1..3 : AnsweredOverload(fbOutcomes[i])
         /\ fbOutcomes[4].ok )
       => (fbStatus = 200 /\ fbWaits = <<500, 1000, 1500>>)

C3_Witness ==
    /\ fbPc = "done" /\ fbStatus = 200 /\ Len(fbOutcomes) = 4
    /\ fbWaits = <<500, 1000, 1500>>

BodyIsValid == fbBody.questions.isArray /\ fbBody.answers.isArray

\* C4: without the credential every feedback request is answered 503 with no
\* backend call, also when questions or answers is not an array; with the
\* credential a request whose questions or answers is not an array is
\* answered 400 with no backend call.
C4_CredentialFirst ==
    /\ (aiClient = "null" /\ fbPc # "idle") =>
            (fbPc = "done" /\ fbStatus = 503 /\ fbCalls = 0)
    /\ (aiClient = "client" /\ fbPc # "idle" /\ ~BodyIsValid) =>
            (fbPc = "done" /\ fbStatus = 400 /\ fbCalls = 0)

C4_Witness ==
    /\ aiClient = "null" /\ fbPc = "done" /\ ~BodyIsValid /\ fbStatus = 503

(***************************************************************************)
(*                    Properties of Part II (C5 - C10)                     *)
(***************************************************************************)

\* The handler of request r has returned or thrown: nothing of it runs again.
Finished(rec) == rec.pc \in {"done", "dropped"}

\* The database or the pool failed the request for a reason of its own (not
\* the unique index refusing a duplicate).
EnvFailure(rec) ==
    rec.connFailed \/ rec.rollbackFailed \/ (rec.stmtFailed /\ ~rec.uniqueViolation)

ValidRegister(rec) ==
    rec.kind = "register" /\ rec.args.email # "" /\ rec.args.password # ""

\* C5: of two register requests with the same email at least one, the second
\* to get to the table, is answered 409, however their SELECT and INSERT
\* steps interleave, and users never holds two rows with one email.
C5_RegisterRejectsDuplicate ==
    /\ \A u1, u2 \in users : u1.email = u2.email => u1 = u2
    /\ \A r1, r2 \in Req :
        ( /\ r1 < r2
          /\ ValidRegister(reqs[r1]) /\ ValidRegister(reqs[r2])
          /\ reqs[r1].args.email = reqs[r2].args.email
          /\ Finished(reqs[r1]) /\ Finished(reqs[r2])
          /\ ~EnvFailure(reqs[r1]) /\ ~EnvFailure(reqs[r2]) )
        => (reqs[r1].status = 409 \/ reqs[r2].status = 409)

ValidImport(rec) ==
    /\ rec.kind = "import"
    /\ rec.args.userId # 0
    /\ rec.args.questions.isArray
    /\ Len(rec.args.questions.elems) > 0

\* A well-formed entry of questions[]: an object with a non-empty question,
\* a non-empty correctAnswer and an array wrongAnswers.
WellFormed(e) ==
    ~e.isNull /\ e.question # "" /\ e.correctAnswer # "" /\ e.wrongAnswers.isArray

\* What an entry is stored as, but for the row's ids.
StoredAs(e) ==
    [question |-> e.question, correct_answer |-> e.correctAnswer,
     wrong_answers |-> JSONStringify(e.wrongAnswers.elems)]

RowContent(q) ==
    [question |-> q.question, correct_answer |-> q.correct_answer,
     wrong_answers |-> q.wrong_answers]

\* The committed question rows of quiz set id, in id order.
CommittedContent(id) ==
    LET rows == SeqById({ q \in questions : q.quiz_set_id = id })
    IN  [i \in 1..Len(rows) |-> RowContent(rows[i])]

\* The well-formed entries of questions[], in input order, as rows.
ExpectedContent(elems) ==
    LET good == SelectSeq(elems, WellFormed)
    IN  [i \in 1..Len(good) |-> StoredAs(good[i])]

\* C6: an import with a userId and a non-empty questions[] whose database
\* steps all succeed is answered 201 and commits one quiz set row and one
\* question row per well-formed entry, in input order, whatever malformed
\* entries stand between them.
C6_ImportSkipsMalformed ==
    \A r \in Req :
        (ValidImport(reqs[r]) /\ Finished(reqs[r]) /\ ~EnvFailure(reqs[r])) =>
            /\ reqs[r].status = 201
            /\ Cardinality({ q \in quiz_sets : q.id = reqs[r].quizSetId }) = 1
            /\ CommittedContent(reqs[r].quizSetId)
                 = ExpectedContent(reqs[r].args.questions.elems)

\* C7: an import one of whose statements (BEGIN, an INSERT, COMMIT) failed
\* leaves nothing of itself committed and is answered with the generic 500.
C7_ImportAtomic ==
    \A r \in Req :
        (ValidImport(reqs[r]) /\ Finished(reqs[r]) /\ reqs[r].stmtFailed) =>
            /\ reqs[r].status = 500
            /\ reqs[r].body.error = GenericError
            /\ \A q \in quiz_sets : q.id # reqs[r].quizSetId
            /\ \A q \in questions : q.quiz_set_id # reqs[r].quizSetId

\* A request holds a client: it is inside query(), or between pool.connect()
\* and client.release() of the import handler.
InUnitOfWork(rec) ==
    rec.pc \in {"exec", "begin", "insertSet", "insertQ", "commit", "rollback"}

\* C8: the clients checked out of the pool are exactly those of the units of
\* work in progress; every request has released each client it acquired
\* once and only once; when every request has finished the pool is whole.
C8_ConnectionsReleased ==
    /\ poolInUse = Cardinality({ r \in Req : InUnitOfWork(reqs[r]) })
    /\ poolInUse <= PoolSize
    /\ \A r \in Req :
        reqs[r].acquired - reqs[r].released
            = IF InUnitOfWork(reqs[r]) THEN 1 ELSE 0
    /\ (\A r \in Req : Finished(reqs[r])) => poolInUse = 0

C8_Witness ==
    /\ \A r \in Req : Finished(reqs[r])
    /\ \E r \in Req :
        reqs[r].kind = "import" /\ reqs[r].rollbackFailed /\ reqs[r].released = 1
    /\ \E r \in Req :
        reqs[r].kind # "import" /\ reqs[r].stmtFailed /\ reqs[r].released = 1

UpdateOrDelete(rec) ==
    rec.kind \in {"updateQuizSet", "deleteQuizSet", "updateQuestion", "deleteQuestion"}

\* The row the request names exists (committed).
TargetExists(rec) ==
    IF rec.kind \in {"updateQuizSet", "deleteQuizSet"}
      THEN \E q \in quiz_sets : q.id = rec.args.id
      ELSE \E q \in questions : q.id = rec.args.id

\* The step ends request r, an update or delete past its validation, while
\* the row it names does not exist.
EndsOnMissingTarget(r) ==
    /\ UpdateOrDelete(reqs[r])
    /\ reqs[r].pc \in {"connect", "exec"}
    /\ reqs'[r].pc = "done"
    /\ ~TargetExists(reqs[r])

\* C9 as stated: an update or delete of an id that does not exist is
\* answered 204 and changes no row.
C9_MissingIdIs204 ==
    [][ \A r \in Req :
            EndsOnMissingTarget(r) =>
                /\ reqs'[r].status = 204
                /\ quiz_sets' = quiz_sets /\ questions' = questions ]_vars

\* C9, amended: an update or delete of an id that does not exist changes no
\* row, and is answered 204 unless acquiring the client or the statement
\* failed, and 500 then; a delete answered 204 leaves its id absent, so that
\* every repetition of it is again a delete of an id that does not exist.
C9_MissingIdIsNoOp ==
    [][ \A r \in Req :
            /\ EndsOnMissingTarget(r) =>
                /\ reqs'[r].status =
                     IF reqs'[r].connFailed \/ reqs'[r].stmtFailed THEN 500 ELSE 204
                /\ quiz_sets' = quiz_sets /\ questions' = questions
            /\ ( /\ reqs[r].kind \in {"deleteQuizSet", "deleteQuestion"}
                 /\ reqs'[r].pc = "done" /\ reqs'[r].status = 204 )
               => ~TargetExists(reqs[r])' ]_vars

C9_Witness ==
    /\ users # {} /\ quiz_sets = {} /\ questions = {}
    /\ \E r1, r2 \in Req :
        /\ r1 # r2
        /\ reqs[r1].kind = "deleteQuizSet" /\ reqs[r2].kind = "deleteQuizSet"
        /\ reqs[r1].args.id = 1 /\ reqs[r2].args.id = 1
        /\ reqs[r1].status = 204 /\ reqs[r2].status = 204

\* C10: a request whose handler has finished has been sent exactly one
\* response, and none is ever sent two.
C10_AlwaysAnswered ==
    \A r \in Req :
        /\ reqs[r].responses <= 1
        /\ Finished(reqs[r]) => reqs[r].responses = 1

=============================================================================
